---- MODULE Spec2Model ----
(***************************************************************************)
(* CashflowPredictiveBot (src/cashflow_predictive_bot.py): the pipeline    *)
(* orchestrator, its stage methods and handle_error's retry loop.          *)
(*                                                                         *)
(* The three collaborators (api wrapper, PredictiveModel, KnowledgeBase)   *)
(* are imported by the file and are not part of it: their calls are        *)
(* modelled by an outcome chosen by the environment ("ok" or the kind of   *)
(* the exception raised), and the model's untrained/trained lifecycle is   *)
(* taken from the specification.                                           *)
(*                                                                         *)
(* An exception is modelled by the name of its class, str(e) by the same   *)
(* name, and datetime.now() by the number of the top-level call in         *)
(* progress.                                                               *)
(***************************************************************************)
EXTENDS Integers, Sequences, FiniteSets, TLC

VARIABLES
    api_wrapper,      \* self.api_wrapper: None or the wrapper object
    model,            \* state of self.model: "untrained" / "trained"
    knowledge_base,   \* payloads self.knowledge_base.update received
    error_log,        \* self.error_log: sequence of <<timestamp, message>>
    calls,            \* collaborator calls made by the top-level call in progress
    stages,           \* orchestrator methods completed inside that call
    logged,           \* logging records emitted by that call
    op,               \* the top-level call in progress, or Idle
    error,            \* handle_error: the error parameter
    pc,               \* position inside run_analysis
    locals,           \* local variables of run_analysis
    retries,          \* handle_error: retries
    attempts,         \* handle_error: outcome of each loop iteration so far
    result,           \* how the last top-level call ended
    error_log_at_call,\* self.error_log when the top-level call started
    train_ok,         \* a call of PredictiveModel.train has returned normally
    handle_error_calls, \* number of calls of handle_error so far
    ops               \* number of top-level calls started

vars == <<api_wrapper, model, knowledge_base, error_log, calls, stages, logged,
          op, error, pc, locals, retries, attempts, result, error_log_at_call, train_ok,
          handle_error_calls, ops>>

----------------------------------------------------------------------------
(* Bounds *)

\* top-level calls made on one bot
MaxOps == 3

----------------------------------------------------------------------------
(* Program constants *)

\* handle_error: max_retries
max_retries == 3
\* handle_error: time.sleep(10)
Backoff == 10
\* the trailing window: timedelta(days=365)
TrailingDays == 365

----------------------------------------------------------------------------
(* Values *)

None == [type |-> "NoneType"]
NoExc == "none"
NoArg == 0
Idle == "idle"
NoResult == [op |-> Idle, arg |-> NoArg, status |-> "none", exc |-> NoExc,
             value |-> None]
NoLocals == [data |-> None, thirty_day_forecast |-> None,
             ninety_day_forecast |-> None, insights |-> None]

\* api_type values a caller passes to connect_to_api
ApiTypes == {"stripe", "plaid", "Stripe", "paypal"}

\* forecast_days values a caller passes to predict_cashflow
Horizons == {30, 90}

\* length in days of the window a caller of fetch_financial_data asks for
Windows == {31, 365}

\* exceptions the collaborators raise
FetchFailures == {"ConnectionError"}
ReinitFailures == {"ConnectionError", "RuntimeError"}
TrainFailures == {"TrainingError"}
PredictFailures == {"PredictionError"}
InsightFailures == {"InsightError"}
UpdateFailures == {"UpdateError"}

\* exceptions a caller hands to handle_error
ErrorKinds == {"ConnectionError", "DataProcessingError", "NotTrainedError",
               "ValueError", "PredictionError"}

\* ModuleGlobals of a module that also imports DataProcessingError
ModuleGlobals_WithDataProcessingError ==
    {"Dict", "List", "Optional", "logging", "pd", "datetime", "timedelta",
     "StripeAPIWrapper", "PlaidAPIWrapper", "PredictiveModel", "KnowledgeBase",
     "CashflowPredictiveBot", "DataProcessingError"}

\* names bound in the module's global namespace by its imports and its class
ModuleGlobals == {"Dict", "List", "Optional", "logging", "pd", "datetime",
                  "timedelta", "StripeAPIWrapper", "PlaidAPIWrapper",
                  "PredictiveModel", "KnowledgeBase", "CashflowPredictiveBot"}

\* the builtin exception classes the file names
Builtins == {"Exception", "ValueError", "ConnectionError"}

NameDefined(n) == n \in ModuleGlobals \cup Builtins

----------------------------------------------------------------------------
(* The bot's state as one record, and the outcome of a method *)

Self == [api_wrapper |-> api_wrapper, model |-> model,
         knowledge_base |-> knowledge_base, error_log |-> error_log,
         calls |-> calls, stages |-> stages, logged |-> logged, now |-> ops]

\* the state a top-level call starts in
Fresh == [Self EXCEPT !.calls = <<>>, !.stages = <<>>, !.logged = <<>>,
                      !.now = ops + 1]

Out(s, exc, ret) == [s |-> s, exc |-> exc, ret |-> ret]

Call(fn, arg, exc) == [fn |-> fn, arg |-> arg, exc |-> exc]
Stage(fn, arg, exc, depth) == [fn |-> fn, arg |-> arg, exc |-> exc, depth |-> depth]

Called(s, fn, arg, exc) == [s EXCEPT !.calls = Append(@, Call(fn, arg, exc))]
Staged(s, fn, arg, exc, depth) ==
    [s EXCEPT !.stages = Append(@, Stage(fn, arg, exc, depth))]
LogError(s, msg) == [s EXCEPT !.logged = Append(@, <<"ERROR", msg>>)]
LogInfo(s, msg) == [s EXCEPT !.logged = Append(@, <<"INFO", msg>>)]
\* AppendErrorLog keeping only the latest entry
AppendErrorLog_Overwrite(s, exc) == [s EXCEPT !.error_log = <<<<s.now, exc>>>>]

AppendErrorLog(s, exc) == [s EXCEPT !.error_log = Append(@, <<s.now, exc>>)]

----------------------------------------------------------------------------
(* Collaborators: o is the outcome of the call, "ok" or an exception *)

\* self.api_wrapper.get_transactions(start_date, end_date)
get_transactions(s, window, o) ==
    IF s.api_wrapper = None
    THEN Out(s, "AttributeError", None)
    ELSE IF o = "ok"
         THEN Out(Called(s, "get_transactions", window, NoExc), NoExc,
                  [window |-> window])
         ELSE Out(Called(s, "get_transactions", window, o), o, None)

\* self.api_wrapper.reinitialize_connection()
reinitialize_connection(s, o) ==
    IF s.api_wrapper = None
    THEN Out(s, "AttributeError", None)
    ELSE IF o = "ok"
         THEN Out(Called(s, "reinitialize_connection", NoArg, NoExc), NoExc, None)
         ELSE Out(Called(s, "reinitialize_connection", NoArg, o), o, None)

\* PredictiveModel.train(data)
Model_train(s, data, o) ==
    IF o = "ok"
    THEN Out([Called(s, "train", data.window, NoExc) EXCEPT !.model = "trained"],
             NoExc, None)
    ELSE Out(Called(s, "train", data.window, o), o, None)

\* PredictiveModel.predict(forecast_days)
Model_predict(s, h, o) ==
    IF s.model # "trained"
    THEN Out(Called(s, "predict", h, "NotTrainedError"), "NotTrainedError", None)
    ELSE IF o = "ok"
         THEN Out(Called(s, "predict", h, NoExc), NoExc,
                  [cashflow |-> <<"cashflow", h>>, low_ci |-> <<"low_ci", h>>,
                   high_ci |-> <<"high_ci", h>>])
         ELSE Out(Called(s, "predict", h, o), o, None)

\* PredictiveModel.generate_insights()
Model_generate_insights(s, o) ==
    IF s.model # "trained"
    THEN Out(Called(s, "generate_insights", NoArg, "NotTrainedError"),
             "NotTrainedError", None)
    ELSE IF o = "ok"
         THEN Out(Called(s, "generate_insights", NoArg, NoExc), NoExc,
                  [metric1 |-> "metric1", metric2 |-> "metric2"])
         ELSE Out(Called(s, "generate_insights", NoArg, o), o, None)

\* KnowledgeBase.update(payload)
KnowledgeBase_update(s, payload, o) ==
    IF o = "ok"
    THEN Out([Called(s, "update", NoArg, NoExc)
                 EXCEPT !.knowledge_base = Append(@, payload)], NoExc, None)
    ELSE Out(Called(s, "update", NoArg, o), o, None)

----------------------------------------------------------------------------
(* The stage methods: depth is 1 when the top-level call invokes the       *)
(* method itself and 2 when update_knowledge_base does                     *)

\* fetch_financial_data calling the wrapper a second time when it raised
fetch_financial_data_Retry(s, window, o, depth) ==
    LET r1 == get_transactions(s, window, o)
        r == IF r1.exc = NoExc THEN r1 ELSE get_transactions(r1.s, window, o)
    IN
    IF r.exc = NoExc
    THEN Out(Staged(r.s, "fetch_financial_data", window, NoExc, depth),
             NoExc, r.ret)
    ELSE Out(Staged(AppendErrorLog(LogError(r.s, "Failed to fetch financial data"),
                                   r.exc),
                    "fetch_financial_data", window, r.exc, depth),
             r.exc, None)

fetch_financial_data(s, window, o, depth) ==
    LET r == get_transactions(s, window, o) IN
    IF r.exc = NoExc
    THEN Out(Staged(r.s, "fetch_financial_data", window, NoExc, depth),
             NoExc, r.ret)
    ELSE Out(Staged(AppendErrorLog(LogError(r.s, "Failed to fetch financial data"),
                                   r.exc),
                    "fetch_financial_data", window, r.exc, depth),
             r.exc, None)

train_model(s, data, o, depth) ==
    LET r == Model_train(s, data, o) IN
    IF r.exc = NoExc
    THEN Out(Staged(LogInfo(r.s, "Model training completed successfully"),
                    "train_model", data.window, NoExc, depth), NoExc, None)
    ELSE Out(Staged(LogError(r.s, "Model training failed"),
                    "train_model", data.window, r.exc, depth), r.exc, None)

\* predict_cashflow returning an empty forecast when the model raises
predict_cashflow_Swallow(s, h, o, depth) ==
    LET r == Model_predict(s, h, o) IN
    IF r.exc = NoExc
    THEN Out(Staged(r.s, "predict_cashflow", h, NoExc, depth), NoExc,
             [predicted_cashflow |-> r.ret.cashflow,
              confidence_interval_low |-> r.ret.low_ci,
              confidence_interval_high |-> r.ret.high_ci])
    ELSE Out(Staged(AppendErrorLog(LogError(r.s, "Cashflow prediction failed"),
                                   r.exc),
                    "predict_cashflow", h, NoExc, depth),
             NoExc, None)

predict_cashflow(s, h, o, depth) ==
    LET r == Model_predict(s, h, o) IN
    IF r.exc = NoExc
    THEN Out(Staged(r.s, "predict_cashflow", h, NoExc, depth), NoExc,
             [predicted_cashflow |-> r.ret.cashflow,
              confidence_interval_low |-> r.ret.low_ci,
              confidence_interval_high |-> r.ret.high_ci])
    ELSE Out(Staged(AppendErrorLog(LogError(r.s, "Cashflow prediction failed"),
                                   r.exc),
                    "predict_cashflow", h, r.exc, depth),
             r.exc, None)

\* generate_insights returning an empty result when the model raises
generate_insights_Swallow(s, o, depth) ==
    LET r == Model_generate_insights(s, o) IN
    IF r.exc = NoExc
    THEN Out(Staged(r.s, "generate_insights", NoArg, NoExc, depth), NoExc,
             [key_metric_1 |-> r.ret.metric1, key_metric_2 |-> r.ret.metric2])
    ELSE Out(Staged(LogError(r.s, "Insight generation failed"),
                    "generate_insights", NoArg, NoExc, depth), NoExc, None)

generate_insights(s, o, depth) ==
    LET r == Model_generate_insights(s, o) IN
    IF r.exc = NoExc
    THEN Out(Staged(r.s, "generate_insights", NoArg, NoExc, depth), NoExc,
             [key_metric_1 |-> r.ret.metric1, key_metric_2 |-> r.ret.metric2])
    ELSE Out(Staged(LogError(r.s, "Insight generation failed"),
                    "generate_insights", NoArg, r.exc, depth), r.exc, None)

\* update_knowledge_base updating the knowledge base whatever the fetch did
update_knowledge_base_IgnoreFetch(s, o, depth) ==
    LET p == predict_cashflow(s, 30, o[1], depth + 1)
        f == fetch_financial_data(p.s, TrailingDays, o[2], depth + 1)
        u == KnowledgeBase_update(f.s,
                 [cashflow_predictions |-> p.ret,
                  historical_cashflow_data |-> f.ret], o[3])
        failed == IF p.exc # NoExc THEN p ELSE u
    IN
    IF failed.exc = NoExc
    THEN Out(Staged(u.s, "update_knowledge_base", NoArg, NoExc, depth), NoExc, None)
    ELSE Out(Staged(LogError(failed.s, "Failed to update knowledge base"),
                    "update_knowledge_base", NoArg, failed.exc, depth),
             failed.exc, None)

\* o is the triple of outcomes of predict, get_transactions and update
update_knowledge_base(s, o, depth) ==
    LET p == predict_cashflow(s, 30, o[1], depth + 1)
        f == fetch_financial_data(p.s, TrailingDays, o[2], depth + 1)
        u == KnowledgeBase_update(f.s,
                 [cashflow_predictions |-> p.ret,
                  historical_cashflow_data |-> f.ret], o[3])
        failed == IF p.exc # NoExc THEN p
                  ELSE IF f.exc # NoExc THEN f
                  ELSE u
    IN
    IF failed.exc = NoExc
    THEN Out(Staged(u.s, "update_knowledge_base", NoArg, NoExc, depth), NoExc, None)
    ELSE Out(Staged(LogError(failed.s, "Failed to update knowledge base"),
                    "update_knowledge_base", NoArg, failed.exc, depth),
             failed.exc, None)

----------------------------------------------------------------------------
(* connect_to_api and handle_error *)

\* connect_to_api comparing api_type without regard to case
connect_to_api_AnyCase(s, api_type) ==
    IF api_type \in {"stripe", "Stripe"}
    THEN Out([s EXCEPT !.api_wrapper = [type |-> "StripeAPIWrapper", id |-> s.now]],
             NoExc, None)
    ELSE IF api_type = "plaid"
    THEN Out([s EXCEPT !.api_wrapper = [type |-> "PlaidAPIWrapper", id |-> s.now]],
             NoExc, None)
    ELSE Out(s, "ValueError", None)

connect_to_api(s, api_type) ==
    IF api_type = "stripe"
    THEN Out([s EXCEPT !.api_wrapper = [type |-> "StripeAPIWrapper", id |-> s.now]],
             NoExc, None)
    ELSE IF api_type = "plaid"
    THEN Out([s EXCEPT !.api_wrapper = [type |-> "PlaidAPIWrapper", id |-> s.now]],
             NoExc, None)
    ELSE Out(s, "ValueError", None)

\* isinstance(error, ConnectionError)
IsConnectionError(e) == e = "ConnectionError"

\* TryCorrect replacing the wrapper by a new one of the same type
TryCorrect_Reconnect(s, e, o) ==
    IF IsConnectionError(e)
    THEN LET r == reinitialize_connection(Called(s, "sleep", Backoff, NoExc), o[1]) IN
         IF r.exc = NoExc
         THEN Out([r.s EXCEPT !.api_wrapper = [@ EXCEPT !.id = @ + 1]], NoExc, None)
         ELSE r
    ELSE IF ~NameDefined("DataProcessingError")
    THEN Out(s, "NameError", None)
    ELSE IF e = "DataProcessingError"
    THEN LET f == fetch_financial_data(s, TrailingDays, o[1], 1) IN
         IF f.exc # NoExc THEN f ELSE train_model(f.s, f.ret, o[2], 1)
    ELSE Out(s, NoExc, None)

\* TryCorrect sleeping without reinitializing the connection
TryCorrect_NoReinit(s, e, o) ==
    IF IsConnectionError(e)
    THEN Out(Called(s, "sleep", Backoff, NoExc), NoExc, None)
    ELSE IF ~NameDefined("DataProcessingError")
    THEN Out(s, "NameError", None)
    ELSE IF e = "DataProcessingError"
    THEN LET f == fetch_financial_data(s, TrailingDays, o[1], 1) IN
         IF f.exc # NoExc THEN f ELSE train_model(f.s, f.ret, o[2], 1)
    ELSE Out(s, NoExc, None)

\* the body of the try block of one iteration of handle_error's loop;
\* o is the pair of outcomes of the collaborator calls it makes
TryCorrect(s, e, o) ==
    IF IsConnectionError(e)
    THEN reinitialize_connection(Called(s, "sleep", Backoff, NoExc), o[1])
    ELSE IF ~NameDefined("DataProcessingError")
    THEN Out(s, "NameError", None)
    ELSE IF e = "DataProcessingError"
    THEN LET f == fetch_financial_data(s, TrailingDays, o[1], 1) IN
         IF f.exc # NoExc THEN f ELSE train_model(f.s, f.ret, o[2], 1)
    ELSE Out(s, NoExc, None)

\* Iteration not counting the failed attempt
Iteration_NoCount(s, e, n, o) ==
    LET r == TryCorrect(s, e, o) IN
    IF r.exc = NoExc
    THEN [s |-> r.s, retries |-> n, done |-> TRUE, exc |-> NoExc, caught |-> NoExc]
    ELSE [s |-> LogError(r.s, "Retrying failed operation"),
          retries |-> n,
          done |-> (n = max_retries),
          exc |-> IF n = max_retries THEN r.exc ELSE NoExc,
          caught |-> r.exc]

\* Iteration raising the error handle_error was called with
Iteration_RaiseOriginal(s, e, n, o) ==
    LET r == TryCorrect(s, e, o) IN
    IF r.exc = NoExc
    THEN [s |-> r.s, retries |-> n, done |-> TRUE, exc |-> NoExc, caught |-> NoExc]
    ELSE [s |-> LogError(r.s, "Retrying failed operation"),
          retries |-> n + 1,
          done |-> (n + 1 = max_retries),
          exc |-> IF n + 1 = max_retries THEN e ELSE NoExc,
          caught |-> r.exc]

\* one iteration of the loop of handle_error, entered with n retries:
\* done tells that handle_error has ended, exc with which exception
Iteration(s, e, n, o) ==
    LET r == TryCorrect(s, e, o) IN
    IF r.exc = NoExc
    THEN [s |-> r.s, retries |-> n, done |-> TRUE, exc |-> NoExc, caught |-> NoExc]
    ELSE [s |-> LogError(r.s, "Retrying failed operation"),
          retries |-> n + 1,
          done |-> (n + 1 = max_retries),
          exc |-> IF n + 1 = max_retries THEN r.exc ELSE NoExc,
          caught |-> r.exc]

----------------------------------------------------------------------------
(* The state machine: a caller makes top-level calls one after the other *)

Init ==
    /\ api_wrapper = None
    /\ model = "untrained"
    /\ knowledge_base = <<>>
    /\ error_log = <<>>
    /\ calls = <<>>
    /\ stages = <<>>
    /\ logged = <<>>
    /\ op = Idle
    /\ error = NoExc
    /\ pc = "none"
    /\ locals = NoLocals
    /\ retries = 0
    /\ attempts = <<>>
    /\ result = NoResult
    /\ error_log_at_call = <<>>
    /\ train_ok = FALSE
    /\ handle_error_calls = 0
    /\ ops = 0

Commit(s) ==
    /\ api_wrapper' = s.api_wrapper
    /\ model' = s.model
    /\ knowledge_base' = s.knowledge_base
    /\ error_log' = s.error_log
    /\ calls' = s.calls
    /\ stages' = s.stages
    /\ logged' = s.logged
    /\ train_ok' = (train_ok \/ \E i \in 1..Len(s.calls) :
                                  s.calls[i].fn = "train" /\ s.calls[i].exc = NoExc)

\* a top-level call starts
Begin ==
    /\ op = Idle
    /\ ops < MaxOps
    /\ ops' = ops + 1
    /\ error_log_at_call' = error_log

\* a top-level call ends: it returns r.ret or raises r.exc
Ends(name, arg, r) ==
    /\ op' = Idle
    /\ result' = [op |-> name, arg |-> arg,
                  status |-> IF r.exc = NoExc THEN "returned" ELSE "raised",
                  exc |-> r.exc, value |-> r.ret]

\* a call of one of the single-step methods
Single(name, arg, r) ==
    /\ Begin
    /\ Commit(r.s)
    /\ Ends(name, arg, r)
    /\ UNCHANGED <<error, pc, locals, retries, attempts, handle_error_calls>>

ConnectToApi ==
    \E t \in ApiTypes : Single("connect_to_api", t, connect_to_api(Fresh, t))

FetchFinancialData ==
    \E w \in Windows, o \in {"ok"} \cup FetchFailures :
        Single("fetch_financial_data", w, fetch_financial_data(Fresh, w, o, 1))

TrainModel ==
    \E w \in Windows, o \in {"ok"} \cup TrainFailures :
        Single("train_model", w, train_model(Fresh, [window |-> w], o, 1))

PredictCashflow ==
    \E h \in Horizons, o \in {"ok"} \cup PredictFailures :
        Single("predict_cashflow", h, predict_cashflow(Fresh, h, o, 1))

GenerateInsights ==
    \E o \in {"ok"} \cup InsightFailures :
        Single("generate_insights", NoArg, generate_insights(Fresh, o, 1))

UpdateOutcomes ==
    ({"ok"} \cup PredictFailures) \X ({"ok"} \cup FetchFailures)
        \X ({"ok"} \cup UpdateFailures)

UpdateKnowledgeBase ==
    \E o \in UpdateOutcomes :
        Single("update_knowledge_base", NoArg, update_knowledge_base(Fresh, o, 1))

----------------------------------------------------------------------------
(* run_analysis, one stage per step *)

\* run_analysis_except returning what there is instead of raising
run_analysis_except_Partial(r) ==
    Out(AppendErrorLog(LogError(r.s, "Main analysis run failed"), r.exc),
        NoExc, [forecasts |-> None, insights |-> None])

\* run_analysis_except logging without appending to error_log
run_analysis_except_NoAppend(r) ==
    Out(LogError(r.s, "Main analysis run failed"), r.exc, None)

\* the except clause of run_analysis
run_analysis_except(r) ==
    Out(AppendErrorLog(LogError(r.s, "Main analysis run failed"), r.exc),
        r.exc, None)

\* the return statement of run_analysis
run_analysis_return(s, l) ==
    Out(LogInfo(s, "Cashflow predictive analysis completed successfully"), NoExc,
        [forecasts |-> [d30 |-> l.thirty_day_forecast,
                        d90 |-> l.ninety_day_forecast],
         insights |-> l.insights])

\* RunStage going on to predict(90) after a failed predict(30)
RunStage_KeepGoing(r, next, l) ==
    IF r.exc = NoExc \/ next = "predict90"
    THEN /\ Commit(r.s)
         /\ op' = "run_analysis"
         /\ pc' = next
         /\ locals' = l
         /\ result' = NoResult
    ELSE /\ Commit(run_analysis_except(r).s)
         /\ Ends("run_analysis", NoArg, run_analysis_except(r))
         /\ pc' = "none"
         /\ locals' = NoLocals

\* stage r of run_analysis is over: go on at next with locals l, or fail
RunStage(r, next, l) ==
    IF r.exc = NoExc
    THEN /\ Commit(r.s)
         /\ op' = "run_analysis"
         /\ pc' = next
         /\ locals' = l
         /\ result' = NoResult
    ELSE /\ Commit(run_analysis_except(r).s)
         /\ Ends("run_analysis", NoArg, run_analysis_except(r))
         /\ pc' = "none"
         /\ locals' = NoLocals

RunFetch ==
    \E o \in {"ok"} \cup FetchFailures :
        LET r == fetch_financial_data(Fresh, TrailingDays, o, 1) IN
        /\ Begin
        /\ RunStage(r, "train", [NoLocals EXCEPT !.data = r.ret])
        /\ UNCHANGED <<error, retries, attempts, handle_error_calls>>

RunTrain ==
    \E o \in {"ok"} \cup TrainFailures :
        /\ op = "run_analysis" /\ pc = "train"
        /\ RunStage(train_model(Self, locals.data, o, 1), "predict30", locals)
        /\ UNCHANGED <<error, retries, attempts, handle_error_calls, error_log_at_call, ops>>

RunPredict30 ==
    \E o \in {"ok"} \cup PredictFailures :
        LET r == predict_cashflow(Self, 30, o, 1) IN
        /\ op = "run_analysis" /\ pc = "predict30"
        /\ RunStage(r, "predict90", [locals EXCEPT !.thirty_day_forecast = r.ret])
        /\ UNCHANGED <<error, retries, attempts, handle_error_calls, error_log_at_call, ops>>

RunPredict90 ==
    \E o \in {"ok"} \cup PredictFailures :
        LET r == predict_cashflow(Self, 90, o, 1) IN
        /\ op = "run_analysis" /\ pc = "predict90"
        /\ RunStage(r, "insights", [locals EXCEPT !.ninety_day_forecast = r.ret])
        /\ UNCHANGED <<error, retries, attempts, handle_error_calls, error_log_at_call, ops>>

RunInsights ==
    \E o \in {"ok"} \cup InsightFailures :
        LET r == generate_insights(Self, o, 1) IN
        /\ op = "run_analysis" /\ pc = "insights"
        /\ RunStage(r, "update", [locals EXCEPT !.insights = r.ret])
        /\ UNCHANGED <<error, retries, attempts, handle_error_calls, error_log_at_call, ops>>

RunUpdate ==
    \E o \in UpdateOutcomes :
        LET r == update_knowledge_base(Self, o, 1) IN
        /\ op = "run_analysis" /\ pc = "update"
        /\ IF r.exc = NoExc
           THEN /\ Commit(run_analysis_return(r.s, locals).s)
                /\ Ends("run_analysis", NoArg, run_analysis_return(r.s, locals))
           ELSE /\ Commit(run_analysis_except(r).s)
                /\ Ends("run_analysis", NoArg, run_analysis_except(r))
        /\ pc' = "none"
        /\ locals' = NoLocals
        /\ UNCHANGED <<error, retries, attempts, handle_error_calls, error_log_at_call, ops>>

----------------------------------------------------------------------------
(* handle_error, one iteration of its loop per step *)

AttemptOutcomes ==
    ({"ok"} \cup ReinitFailures \cup FetchFailures) \X ({"ok"} \cup TrainFailures)

\* iteration i of handle_error(e) is over
Attempted(e, i) ==
    /\ Commit(i.s)
    /\ retries' = i.retries
    /\ attempts' = Append(IF op = Idle THEN <<>> ELSE attempts, i.caught)
    /\ error' = e
    /\ IF i.done
       THEN Ends("handle_error", e, Out(i.s, i.exc, None))
       ELSE op' = "handle_error" /\ result' = NoResult
    /\ UNCHANGED <<pc, locals>>

\* HandleError going on from the retries left by the call before
HandleError_SharedCounter ==
    \E e \in ErrorKinds, o \in AttemptOutcomes :
        /\ Begin
        /\ Attempted(e, Iteration(Fresh, e, retries, o))
        /\ handle_error_calls' = handle_error_calls + 1

HandleError ==
    \E e \in ErrorKinds, o \in AttemptOutcomes :
        /\ Begin
        /\ Attempted(e, Iteration(Fresh, e, 0, o))
        /\ handle_error_calls' = handle_error_calls + 1

HandleErrorRetry ==
    \E o \in AttemptOutcomes :
        /\ op = "handle_error"
        /\ retries < max_retries
        /\ Attempted(error, Iteration(Self, error, retries, o))
        /\ UNCHANGED <<error_log_at_call, handle_error_calls, ops>>

Next ==
    \/ ConnectToApi
    \/ FetchFinancialData
    \/ TrainModel
    \/ PredictCashflow
    \/ GenerateInsights
    \/ UpdateKnowledgeBase
    \/ RunFetch
    \/ RunTrain
    \/ RunPredict30
    \/ RunPredict90
    \/ RunInsights
    \/ RunUpdate
    \/ HandleError
    \/ HandleErrorRetry

Spec == Init /\ [][Next]_vars

\* a call of handle_error in progress goes on: the loop runs in the caller's
\* thread and every corrective action returns or raises
FairSpec == Spec /\ WF_vars(HandleErrorRetry)

----------------------------------------------------------------------------
(* Properties *)

\* the stages the top-level call itself invoked, in order
TopStages == SelectSeq(stages, LAMBDA x : x.depth = 1)

Count(seq, P(_)) == Cardinality({i \in 1..Len(seq) : P(seq[i])})

Ended(name) == op = Idle /\ result.op = name
InRun == op = "run_analysis" \/ Ended("run_analysis")
InHandleError == op = "handle_error" \/ Ended("handle_error")

RunOrder == << <<"fetch_financial_data", TrailingDays>>,
               <<"train_model", TrailingDays>>,
               <<"predict_cashflow", 30>>,
               <<"predict_cashflow", 90>>,
               <<"generate_insights", NoArg>>,
               <<"update_knowledge_base", NoArg>> >>

\* C1: in a run of run_analysis the stages are invoked in the order fetch(365
\* days), train, predict(30), predict(90), generate_insights,
\* update_knowledge_base, each only after all the earlier ones succeeded; when
\* the fetch fails nothing else is invoked, no collaborator past the fetch
C1_RunOrder ==
    InRun =>
        LET t == TopStages IN
        /\ Len(t) <= Len(RunOrder)
        /\ \A i \in 1..Len(t) :
              /\ t[i].fn = RunOrder[i][1]
              /\ t[i].arg = RunOrder[i][2]
              /\ (i < Len(t) => t[i].exc = NoExc)
        /\ (Len(t) >= 1 /\ t[1].exc # NoExc =>
              /\ Len(stages) = 1
              /\ \A i \in 1..Len(calls) : calls[i].fn = "get_transactions")

C1_Witness ==
    /\ Ended("run_analysis")
    /\ Len(TopStages) = 6
    /\ TopStages[6].exc = "UpdateError"

\* what predict_cashflow returns for horizon h
Forecast(h) == [predicted_cashflow |-> <<"cashflow", h>>,
                confidence_interval_low |-> <<"low_ci", h>>,
                confidence_interval_high |-> <<"high_ci", h>>]

\* C2: run_analysis returns only when all six stages succeeded, and then
\* returns the 30-day forecast, the 90-day forecast and the insights; in every
\* other case it raises the error of the failing stage and returns nothing
C2_NoPartialResult ==
    Ended("run_analysis") =>
        LET t == TopStages IN
        IF result.status = "returned"
        THEN /\ Len(t) = 6
             /\ \A i \in 1..6 : t[i].exc = NoExc
             /\ result.exc = NoExc
             /\ result.value.forecasts.d30 = Forecast(30)
             /\ result.value.forecasts.d90 = Forecast(90)
             /\ result.value.insights =
                    [key_metric_1 |-> "metric1", key_metric_2 |-> "metric2"]
        ELSE /\ result.status = "raised"
             /\ result.value = None
             /\ Len(t) >= 1
             /\ t[Len(t)].exc # NoExc
             /\ result.exc = t[Len(t)].exc

C2_Witness ==
    /\ Ended("run_analysis")
    /\ result.status = "returned"

Reinits == Count(calls, LAMBDA c : c.fn = "reinitialize_connection")

\* C3: handle_error(ConnectionError) has called reinitialize_connection at
\* least once when it returns normally and at most max_retries times when it
\* raises
C3_ReinitCalls ==
    (Ended("handle_error") /\ result.arg = "ConnectionError") =>
        /\ (result.status = "returned" => Reinits >= 1)
        /\ (result.status = "raised" => Reinits <= max_retries)

C3_Witness ==
    /\ Ended("handle_error")
    /\ result.arg = "ConnectionError"
    /\ result.status = "returned"
    /\ Reinits = 2

\* C4: in handle_error every failed attempt adds exactly one to retries, the
\* call raises exactly when retries has reached max_retries, and it raises the
\* exception of the last failed attempt
C4_RetryCounter ==
    InHandleError =>
        /\ retries = Count(attempts, LAMBDA x : x # NoExc)
        /\ (op = Idle => (result.status = "raised" <=> retries = max_retries))
        /\ (op = Idle /\ result.status = "raised" =>
               result.exc = attempts[Len(attempts)])
        /\ (op # Idle => retries < max_retries)

C4_Witness ==
    /\ Ended("handle_error")
    /\ result.status = "raised"
    /\ attempts = <<"RuntimeError", "RuntimeError", "ConnectionError">>

Appended == Len(error_log) - Len(error_log_at_call)

\* C5: handle_error(ConnectionError) whose three corrective attempts all fail
\* with a ConnectionError raises a ConnectionError and has appended exactly
\* three entries to error_log
C5_ThreeEntries ==
    (/\ Ended("handle_error")
     /\ result.arg = "ConnectionError"
     /\ attempts = <<"ConnectionError", "ConnectionError", "ConnectionError">>)
    => /\ result.status = "raised"
       /\ result.exc = "ConnectionError"
       /\ Appended = 3

Fetches == Count(stages, LAMBDA x : x.fn = "fetch_financial_data")
FetchesOk == Count(stages, LAMBDA x : x.fn = "fetch_financial_data" /\ x.exc = NoExc)
Trains == Count(stages, LAMBDA x : x.fn = "train_model")

\* C6: in handle_error(DataProcessingError) every attempt makes one fetch of
\* the trailing 365 days, followed by one train when the fetch succeeded, and
\* no train without a successful fetch
C6_FetchThenTrain ==
    (InHandleError /\ error = "DataProcessingError") =>
        /\ Fetches = Len(attempts)
        /\ Trains = FetchesOk
        /\ \A i \in 1..Len(stages) :
              /\ stages[i].arg = TrailingDays
              /\ (stages[i].fn = "train_model" =>
                     /\ i > 1
                     /\ stages[i-1].fn = "fetch_financial_data"
                     /\ stages[i-1].exc = NoExc)

Stages6 == {"fetch_financial_data", "train_model", "predict_cashflow",
            "generate_insights", "update_knowledge_base", "run_analysis"}

\* C7: a call of fetch_financial_data, train_model, predict_cashflow,
\* generate_insights, update_knowledge_base or run_analysis that fails has
\* appended exactly one entry to error_log
C7_OneEntryPerFailure ==
    (op = Idle /\ result.op \in Stages6 /\ result.status = "raised") =>
        Appended = 1

\* C8: none of the six stage methods swallows a failure: when a collaborator
\* call or a nested stage fails the method raises that exception, it returns
\* only when none failed, and fetch_financial_data calls the wrapper once
C8_NoSwallowing ==
    (op = Idle /\ result.op \in Stages6) =>
        /\ \A i \in 1..Len(calls) :
              calls[i].exc # NoExc =>
                 /\ i = Len(calls)
                 /\ result.status = "raised"
                 /\ result.exc = calls[i].exc
        /\ \A i \in 1..Len(stages) :
              stages[i].exc # NoExc =>
                 /\ result.status = "raised"
                 /\ result.exc = stages[i].exc
        /\ (result.status = "returned" =>
               /\ result.exc = NoExc
               /\ \A i \in 1..Len(calls) : calls[i].exc = NoExc)
        /\ (result.op = "fetch_financial_data" =>
               Len(calls) = IF api_wrapper = None THEN 0 ELSE 1)

C8_Witness ==
    /\ Ended("update_knowledge_base")
    /\ result.status = "raised"
    /\ Len(calls) = 2
    /\ calls[2].fn = "get_transactions"
    /\ calls[2].exc = "ConnectionError"

\* C9: connect_to_api with an api_type other than stripe and plaid raises
\* ValueError and changes nothing: api_wrapper is what it was, and so are the
\* model, the knowledge base and error_log
C9_InvalidProvider ==
    [][(/\ op = Idle
        /\ result'.op = "connect_to_api"
        /\ ops' = ops + 1
        /\ result'.arg \notin {"stripe", "plaid"})
       => /\ result'.status = "raised"
          /\ result'.exc = "ValueError"
          /\ api_wrapper' = api_wrapper
          /\ model' = model
          /\ knowledge_base' = knowledge_base
          /\ error_log' = error_log]_vars

C9_Witness ==
    /\ Ended("connect_to_api")
    /\ result.arg = "Stripe"
    /\ result.status = "raised"
    /\ api_wrapper # None

\* the stages completed by the step
NewStages ==
    IF op = Idle THEN stages' ELSE SubSeq(stages', Len(stages) + 1, Len(stages'))

\* C10: predict_cashflow, for every horizon, and generate_insights, invoked
\* while no train has returned normally, raise NotTrainedError and return
\* nothing; the model is trained only after a train that returned normally
C10_NotTrained ==
    [][/\ \A i \in 1..Len(NewStages) :
             (/\ ~train_ok
              /\ NewStages[i].fn \in {"predict_cashflow", "generate_insights"})
             => NewStages[i].exc = "NotTrainedError"
       /\ (/\ ~train_ok
           /\ op = Idle
           /\ op' = Idle
           /\ result'.op \in {"predict_cashflow", "generate_insights"})
          => /\ result'.status = "raised"
             /\ result'.exc = "NotTrainedError"
             /\ result'.value = None
       /\ (model' = "trained" => train_ok')]_vars

C10_Witness ==
    /\ Ended("predict_cashflow")
    /\ result.arg = 90
    /\ result.exc = "NotTrainedError"
    /\ ~train_ok
    /\ ops = 2

\* C11: handle_error called with an error that is neither a ConnectionError
\* nor a DataProcessingError does no corrective work (no reinitialize, no fetch,
\* no train), and every attempt it makes is counted in retries, at least one
\* before the call ends
C11_NoOpAttemptCounted ==
    (InHandleError /\ error \notin {"ConnectionError", "DataProcessingError"}) =>
        /\ calls = <<>>
        /\ stages = <<>>
        /\ retries = Len(attempts)
        /\ retries >= 1

C11_Witness ==
    /\ Ended("handle_error")
    /\ result.arg = "PredictionError"
    /\ retries = max_retries
    /\ calls = <<>>

\* C12: handle_error handed an invalid-provider-type error (ValueError) or a
\* NotTrainedError never is in a state Retrying(n), n >= 1: it counts no
\* attempt, and it never returns normally (Recovered)
C12_FatalNotRetried ==
    (InHandleError /\ error \in {"ValueError", "NotTrainedError"}) =>
        /\ retries = 0
        /\ ~(op = Idle /\ result.status = "returned")

\* C13: every call of handle_error starts counting at 0, whatever the calls
\* before it did: its first attempt leaves retries at 0 or 1, and it raises
\* only after max_retries failed attempts of its own
C13_FreshCounter ==
    [][/\ (/\ op = Idle
           /\ ops' = ops + 1
           /\ (op' = "handle_error" \/ result'.op = "handle_error"))
          => /\ Len(attempts') = 1
             /\ retries' = (IF attempts'[1] = NoExc THEN 0 ELSE 1)
       /\ (/\ op' = Idle
           /\ result'.op = "handle_error"
           /\ result'.status = "raised")
          => /\ Len(attempts') = max_retries
             /\ \A i \in 1..max_retries : attempts'[i] # NoExc]_vars

C13_Witness ==
    /\ Ended("handle_error")
    /\ handle_error_calls = 2
    /\ retries = max_retries
    /\ calls # <<>>
    /\ result.status = "raised"

IsPrefix(a, b) == Len(a) <= Len(b) /\ SubSeq(b, 1, Len(a)) = a

\* C14: error_log is append-only: no step of any operation removes or changes
\* an entry, so the log of every earlier state is a prefix of the log of every
\* later state
C14_AppendOnly ==
    [][IsPrefix(error_log, error_log')]_vars

C14_Witness ==
    /\ Len(error_log) >= 3
    /\ error_log[1][1] # error_log[Len(error_log)][1]
    /\ op = Idle
    /\ result.status = "returned"

\* the step is one of handle_error(ConnectionError)
ConnectionErrorStep ==
    \/ /\ op = Idle
       /\ ops' = ops + 1
       /\ (op' = "handle_error" \/ result'.op = "handle_error")
       /\ error' = "ConnectionError"
    \/ /\ op = "handle_error"
       /\ error = "ConnectionError"

\* C15: handle_error(ConnectionError) keeps the wrapper object it found in
\* api_wrapper and calls nothing but sleep and reinitialize_connection: no
\* stage method and no knowledge base update, so the model and the knowledge
\* base are unchanged
C15_ReinitInPlace ==
    [][ConnectionErrorStep =>
          /\ api_wrapper' = api_wrapper
          /\ model' = model
          /\ knowledge_base' = knowledge_base
          /\ train_ok' = train_ok
          /\ stages' = <<>>
          /\ \A i \in 1..Len(calls') :
                calls'[i].fn \in {"sleep", "reinitialize_connection"}]_vars

C15_Witness ==
    /\ Ended("handle_error")
    /\ result.arg = "ConnectionError"
    /\ result.status = "returned"
    /\ Reinits = 3
    /\ api_wrapper # None
    /\ model = "trained"

\* the collaborator calls made by the step
NewCalls ==
    IF op = Idle THEN calls' ELSE SubSeq(calls', Len(calls) + 1, Len(calls'))

\* C16: update_knowledge_base calls KnowledgeBase.update only after its own
\* predict(30) and its own fetch of the trailing 365 days both succeeded, once,
\* with both results in the one payload; when the prediction or the fetch
\* fails the knowledge base is not updated and the error is raised
C16_UpdateAfterBoth ==
    [][LET ns == NewStages
           nc == NewCalls
       IN
       /\ (knowledge_base' # knowledge_base =>
              /\ Len(nc) = 3
              /\ nc[1] = Call("predict", 30, NoExc)
              /\ nc[2] = Call("get_transactions", TrailingDays, NoExc)
              /\ nc[3] = Call("update", NoArg, NoExc)
              /\ knowledge_base' =
                    Append(knowledge_base,
                           [cashflow_predictions |-> Forecast(30),
                            historical_cashflow_data |-> [window |-> TrailingDays]]))
       /\ ((Len(ns) >= 1 /\ ns[Len(ns)].fn = "update_knowledge_base") =>
              IF \E i \in 1..(Len(ns) - 1) : ns[i].exc # NoExc
              THEN /\ knowledge_base' = knowledge_base
                   /\ \A i \in 1..Len(nc) : nc[i].fn # "update"
                   /\ op' = Idle
                   /\ result'.status = "raised"
                   /\ \E i \in 1..(Len(ns) - 1) : result'.exc = ns[i].exc
              ELSE /\ Len(ns) = 3
                   /\ Len(nc) = 3
                   /\ nc[3].fn = "update")]_vars

C16_Witness ==
    /\ Ended("update_knowledge_base")
    /\ result.status = "returned"
    /\ Len(knowledge_base) = 1
    /\ Len(calls) = 3

\* C17: every call of handle_error ends: retries stays within 0..max_retries,
\* the call makes at most max_retries attempts, and a call in progress ends by
\* returning (Recovered) or raising (Exhausted)
C17_Terminates ==
    /\ [](/\ retries \in 0..max_retries
          /\ Len(attempts) <= max_retries
          /\ (op = "handle_error" => Len(attempts) < max_retries))
    /\ (op = "handle_error") ~> Ended("handle_error")

C17_Witness ==
    /\ Ended("handle_error")
    /\ attempts = <<"RuntimeError", "ConnectionError", NoExc>>
    /\ result.status = "returned"

\* the collaborator calls of a run of run_analysis that succeeds
RunCalls == << <<"get_transactions", TrailingDays>>,
               <<"train", TrailingDays>>,
               <<"predict", 30>>,
               <<"predict", 90>>,
               <<"generate_insights", NoArg>>,
               <<"predict", 30>>,
               <<"get_transactions", TrailingDays>>,
               <<"update", NoArg>> >>

\* C18: run_analysis does not retry: its collaborator calls are, in order, a
\* fetch, a train, predict 30, predict 90, generate_insights, predict 30, a
\* fetch and an update, all eight of them when it returns and an initial part
\* of them, ending at the call that failed, when it raises; it never runs
\* handle_error's loop
C18_FixedCalls ==
    InRun =>
        /\ Len(calls) <= Len(RunCalls)
        /\ \A i \in 1..Len(calls) :
              /\ calls[i].fn = RunCalls[i][1]
              /\ calls[i].arg = RunCalls[i][2]
              /\ (i < Len(calls) => calls[i].exc = NoExc)
        /\ (Ended("run_analysis") /\ result.status = "returned" =>
               Len(calls) = Len(RunCalls))
        /\ \A i \in 1..Len(logged) : logged[i][2] # "Retrying failed operation"

C18_Witness ==
    /\ Ended("run_analysis")
    /\ result.status = "returned"
    /\ Len(calls) = 8
    /\ Count(calls, LAMBDA c : c.fn = "get_transactions") = 2
    /\ Count(calls, LAMBDA c : c.fn = "predict") = 3

\* C19: a call of run_analysis that returns leaves error_log as it was, and a
\* call that raises leaves it longer than it was, by at least one entry,
\* whichever stage failed
C19_LogFollowsOutcome ==
    Ended("run_analysis") =>
        /\ IsPrefix(error_log_at_call, error_log)
        /\ (result.status = "returned" => error_log = error_log_at_call)
        /\ (result.status = "raised" => Len(error_log) > Len(error_log_at_call))

C19_Witness ==
    /\ Ended("run_analysis")
    /\ result.status = "raised"
    /\ result.exc = "InsightError"
    /\ Appended = 1

====
